---- MODULE Spec2Model ----
(***************************************************************************)
(* A model of kitty/child.py: the Child supervisor (fork, __del__,         *)
(* mark_terminal_ready, the introspection accessors, send_signal_for_key), *)
(* the process-group cache (processes_in_group, cached_process_data) and   *)
(* parse_environ_block.                                                    *)
(*                                                                         *)
(* Python strings are sequences of one-character strings; the NUL          *)
(* character is written NUL.  A call that can raise returns a record with  *)
(* a field saying whether it raised.                                       *)
(***************************************************************************)
EXTENDS Integers, Sequences, FiniteSets, TLC

VARIABLES
    child,      \* the fields of one Child object, and whether it still exists
    fds,        \* the descriptors open in the supervising process
    events,     \* the system calls the Child has issued, in order
    hist,       \* what each call made on the Child returned or raised
    writer,     \* descriptors handed to the asynchronous stdin writer
    calls,      \* number of calls made so far on the Child
    procs,      \* the OS process table: the process group of each live pid
    cache,      \* the cached_map attribute of process_group_map
    scopes,     \* the map (local cm) of each cached_process_data scope not yet left
    plog,       \* the last operation on the process-group cache
    platform,   \* the OS family the introspection backend was selected for
    input,      \* the argument of the function under study
    res         \* the last call of an accessor or function: arguments and outcome

vars == <<child, fds, events, hist, writer, calls, procs, cache, scopes, plog,
          platform, input, res>>

ioVars == <<platform, input, res>>

childVars == <<child, fds, events, hist, writer, calls>>

cacheVars == <<procs, cache, scopes, plog>>

(***************************************************************************)
(* Bounds of the model.                                                    *)
(***************************************************************************)
MaxCalls == 4
MaxFd == 24
MaxDepth == 2
MaxBlobLen == 7

(***************************************************************************)
(* Python values.                                                          *)
(***************************************************************************)
\* None, where the code holds an Optional[int]
None == -100
\* the -1 the code uses for "no descriptor"
NoFd == -1
\* the pid the spawn primitive or the prewarm attach reports
ChildPid == 100

\* no call made yet
NoRes == [op |-> "none", raised |-> FALSE]

\* argv elements used by the inputs
kitty == <<"k", "i", "t", "t", "y">>
bin_kitty == <<"/", "b", "/", "k", "i", "t", "t", "y">>
bash == <<"b", "a", "s", "h">>
open == <<"o", "p", "e", "n">>
plus_open == <<"+", "o", "p", "e", "n">>
at_ls == <<"@", "l", "s">>
ls == <<"l", "s">>

\* os.path.basename: what follows the last "/"
RECURSIVE basename(_)
basename(p) ==
    IF \E i \in 1..Len(p) : p[i] = "/"
    THEN basename(SubSeq(p, (CHOOSE i \in 1..Len(p) : p[i] = "/") + 1, Len(p)))
    ELSE p

\* s[:1]
FirstSlice(s) == IF Len(s) = 0 THEN <<>> ELSE <<s[1]>>

\* x in '@+' for x of length at most 1: the empty string is a substring
InAtPlus(x) == Len(x) = 0 \/ x[1] \in {"@", "+"}

\* is_prewarmable with the two tests for the file-opening subcommand left out
is_prewarmable_open_included(argv) ==
    IF Len(argv) < 3 \/ basename(argv[1]) # kitty
    THEN [raised |-> FALSE, val |-> FALSE]
    ELSE IF ~InAtPlus(FirstSlice(argv[2]))
    THEN [raised |-> FALSE, val |-> FALSE]
    ELSE IF Len(argv[2]) = 0
    THEN [raised |-> TRUE, val |-> FALSE]
    ELSE [raised |-> FALSE, val |-> TRUE]

\* is_prewarmable(argv): [raised, val]; argv[1][0] raises IndexError on ''
is_prewarmable(argv) ==
    IF Len(argv) < 3 \/ basename(argv[1]) # kitty
    THEN [raised |-> FALSE, val |-> FALSE]
    ELSE IF ~InAtPlus(FirstSlice(argv[2]))
    THEN [raised |-> FALSE, val |-> FALSE]
    ELSE IF Len(argv[2]) = 0
    THEN [raised |-> TRUE, val |-> FALSE]
    ELSE IF argv[2][1] = "@"
    THEN [raised |-> FALSE, val |-> TRUE]
    ELSE IF argv[2] = <<"+">>
    THEN [raised |-> FALSE, val |-> argv[3] # open]
    ELSE [raised |-> FALSE, val |-> argv[2] # plus_open]

(***************************************************************************)
(* The supervising process's descriptor table and the system calls.        *)
(* A working state w holds the Child's fields (c), the open descriptors    *)
(* (fds), the call log (ev), the descriptors owned by the stdin writer     *)
(* (wr), the locals of the running method (loc) and whether it has raised. *)
(***************************************************************************)
\* the kernel hands out the lowest free descriptor; 0, 1, 2 are taken
LowestFree(S) == CHOOSE n \in 3..MaxFd : n \notin S /\ \A m \in 3..(n - 1) : m \in S

Raise(w) == [w EXCEPT !.raised = TRUE]

\* a call that is given a descriptor and the stdin payload (or None)
LogData(w, op, fd, data) ==
    [w EXCEPT !.ev = Append(@, [op |-> op, fd |-> fd, fd2 |-> NoFd, ok |-> TRUE,
                                data |-> data])]

\* a call on one descriptor, and one that yields a pair (openpty, pipe)
Log2(w, op, fd, fd2, ok) ==
    [w EXCEPT !.ev = Append(@, [op |-> op, fd |-> fd, fd2 |-> fd2, ok |-> ok,
                                data |-> "None"])]

Log(w, op, fd, ok) == Log2(w, op, fd, NoFd, ok)

\* os.close(fd): closes an open descriptor, raises OSError(EBADF) otherwise
os_close(w, fd) ==
    IF fd \in w.fds
    THEN Log([w EXCEPT !.fds = @ \ {fd}], "close", fd, TRUE)
    ELSE Raise(Log(w, "close", fd, FALSE))

\* The inputs of a Child: argv and the stdin payload
ArgvInputs ==
    { <<bash>>,
      <<kitty, <<"@">>, ls>>,
      <<bin_kitty, <<"+">>, open>>,
      <<kitty, <<>>, ls>> }

StdinInputs == {"None", "payload"}

\* The steps of fork at which a collaborator or the OS can fail
FailPoints ==
    {"none", "openpty", "ready_pipe", "stdin_pipe", "final_env", "attach",
     "spawn", "thread_write"}

(***************************************************************************)
(* Child.final_env.  An environment maps every name of EnvKeys to a value  *)
(* or to Absent.  g holds what the module and its collaborators supply:    *)
(* the default environment, the options, the pids and paths; m is what the *)
(* shell-integration mutator does to the environment in one build.         *)
(***************************************************************************)
Absent == "<absent>"

\* kitty.options.utils.DELETE_ENV_VAR
DELETE_ENV_VAR == "<DELETE>"

CLONE == "KITTY_IS_CLONE_LAUNCH"

EnvKeys ==
    {"FOO", "LC_CTYPE", "TERM", "COLORTERM", "KITTY_PID", "KITTY_PREWARM_SOCKET",
     "KITTY_PREWARM_SOCKET_REAL_TTY", "PWD", "TERMINFO", "KITTY_INSTALLATION_DIR",
     CLONE}

\* {}
EmptyEnv == [k \in EnvKeys |-> Absent]

\* env.update(other)
update(env, other) == [k \in EnvKeys |-> IF other[k] # Absent THEN other[k] ELSE env[k]]

\* default_env().copy(), and the macOS removal of an LC_CTYPE nobody asked for
env_defaults(pf, g) ==
    IF pf = "macos" /\ g.defaults["LC_CTYPE"] = "UTF-8"
       /\ ~g.lc_ctype_before_python /\ ~g.lc_ctype_set_by_user
    THEN [g.defaults EXCEPT !["LC_CTYPE"] = Absent]
    ELSE g.defaults

\* the terminal-identity variables set only where the environment has none
terminal_identity_setdefault(env, g) ==
    [env EXCEPT !["TERM"] = IF @ = Absent THEN g.term ELSE @,
                !["COLORTERM"] = IF @ = Absent THEN "truecolor" ELSE @,
                !["KITTY_PID"] = IF @ = Absent THEN g.pid ELSE @]

\* env['TERM'] = ...term; env['COLORTERM'] = 'truecolor'; env['KITTY_PID'] = getpid()
terminal_identity(env, g) ==
    [env EXCEPT !["TERM"] = g.term, !["COLORTERM"] = "truecolor", !["KITTY_PID"] = g.pid]

\* if not self.is_prewarmed: the prewarm socket and a blank real-tty placeholder
prewarm_vars(env, c, g) ==
    IF ~c.is_prewarmed
    THEN [env EXCEPT !["KITTY_PREWARM_SOCKET"] = g.socket,
                     !["KITTY_PREWARM_SOCKET_REAL_TTY"] = "<32 blanks>"]
    ELSE env

\* PWD if self.cwd, TERMINFO if the directory exists, KITTY_INSTALLATION_DIR
path_vars(env, c, g) ==
    LET e1 == IF c.cwd # "" THEN [env EXCEPT !["PWD"] = c.cwd] ELSE env
        e2 == IF g.tdir # "" THEN [e1 EXCEPT !["TERMINFO"] = g.tdir] ELSE e1
    IN  [e2 EXCEPT !["KITTY_INSTALLATION_DIR"] = g.kitty_base_dir]

\* modify_shell_environ(opts, env, argv): it may set a variable, mark it for
\* deletion or remove it
modify_shell_environ(env, m) ==
    IF m.val = "keep" THEN env ELSE [env EXCEPT ![m.key] = m.val]

\* the environment with the variables marked for deletion left in
keep_deleted(env) == env

\* {k: v for k, v in env.items() if v is not DELETE_ENV_VAR}
drop_deleted(env) == [k \in EnvKeys |-> IF env[k] = DELETE_ENV_VAR THEN Absent ELSE env[k]]

\* the clone token left in the Child
keep_clone_token(tok) == tok

\* self.is_clone_launch = '1'  (after a clone build); untouched otherwise
consume_clone_token(tok) == IF tok # "" THEN "1" ELSE tok

\* what a build leaves in the Child: unmodified_argv, and the token consumed
final_env_child(c) ==
    [c EXCEPT !.unmodified_argv = c.argv,
              !.is_clone_launch = consume_clone_token(@)]

\* Child.final_env(): the environment built, and the Child afterwards
final_env(c, pf, g, m) ==
    LET e1 == update(env_defaults(pf, g), c.env)
        e2 == path_vars(prewarm_vars(terminal_identity(e1, g), c, g), c, g)
        e3 == IF g.shell_integration # "disabled" THEN modify_shell_environ(e2, m) ELSE e2
        e4 == drop_deleted(e3)
        e5 == IF c.is_clone_launch # ""
              THEN [e4 EXCEPT ![CLONE] = c.is_clone_launch]
              ELSE [e4 EXCEPT ![CLONE] = Absent]
    IN  [env |-> e5, c |-> final_env_child(c)]

\* Child.__init__ and the class attributes (child_fd, pid, forked, is_prewarmed)
NewChild(argv, stdin) ==
    [ alive |-> TRUE,
      argv |-> argv,
      stdin |-> stdin,
      forked |-> FALSE,
      is_prewarmed |-> FALSE,
      pid |-> None,
      child_fd |-> None,
      has_terminal_ready_fd |-> FALSE,
      terminal_ready_fd |-> NoFd,
      has_prewarmed_child |-> FALSE,
      env |-> EmptyEnv,
      cwd |-> "/home",
      is_clone_launch |-> "",
      unmodified_argv |-> <<>> ]

NoLocals ==
    [ master |-> NoFd, slave |-> NoFd, stdin |-> "None",
      ready_read_fd |-> NoFd, ready_write_fd |-> NoFd,
      stdin_read_fd |-> NoFd, stdin_write_fd |-> NoFd, pid |-> None ]

Working ==
    [ c |-> child, fds |-> fds, ev |-> events, wr |-> writer,
      loc |-> NoLocals, raised |-> FALSE, ret |-> None ]

(***************************************************************************)
(* Child.fork, statement by statement.  Each step leaves a state that has  *)
(* raised untouched, so the composition stops at the first failure.        *)
(***************************************************************************)
\* self.forked = True; master, slave = openpty()
fork_openpty(w, fail) ==
    IF fail = "openpty" THEN Raise([w EXCEPT !.c.forked = TRUE])
    ELSE LET m == LowestFree(w.fds)
             s == LowestFree(w.fds \cup {m})
         IN  Log2([w EXCEPT !.c.forked = TRUE,
                            !.fds = @ \cup {m, s},
                            !.loc.master = m,
                            !.loc.slave = s], "openpty", m, s, TRUE)

\* fork_classify with the payload left in self.stdin
fork_classify_keeping_stdin(w) ==
    IF w.raised THEN w
    ELSE LET w1 == [w EXCEPT !.loc.stdin = w.c.stdin]
             r == is_prewarmable(w.c.argv)
         IN  IF r.raised THEN Raise(w1)
             ELSE [w1 EXCEPT !.c.is_prewarmed = r.val]

\* stdin, self.stdin = self.stdin, None; self.is_prewarmed = is_prewarmable(self.argv)
fork_classify(w) ==
    IF w.raised THEN w
    ELSE LET w1 == [w EXCEPT !.loc.stdin = w.c.stdin, !.c.stdin = "None"]
             r == is_prewarmable(w.c.argv)
         IN  IF r.raised THEN Raise(w1)
             ELSE [w1 EXCEPT !.c.is_prewarmed = r.val]

\* ready_read_fd, ready_write_fd = os.pipe()
fork_ready_pipe(w, fail) ==
    IF w.raised \/ w.c.is_prewarmed THEN w
    ELSE IF fail = "ready_pipe" THEN Raise(w)
    ELSE LET r == LowestFree(w.fds)
             x == LowestFree(w.fds \cup {r})
         IN  Log2([w EXCEPT !.fds = @ \cup {r, x},
                            !.loc.ready_read_fd = r,
                            !.loc.ready_write_fd = x], "ready_pipe", r, x, TRUE)

\* if stdin is not None: stdin_read_fd, stdin_write_fd = os.pipe(); else both -1
fork_stdin_pipe(w, fail) ==
    IF w.raised \/ w.c.is_prewarmed \/ w.loc.stdin = "None" THEN w
    ELSE IF fail = "stdin_pipe" THEN Raise(w)
    ELSE LET r == LowestFree(w.fds)
             x == LowestFree(w.fds \cup {r})
         IN  Log2([w EXCEPT !.fds = @ \cup {r, x},
                            !.loc.stdin_read_fd = r,
                            !.loc.stdin_write_fd = x], "stdin_pipe", r, x, TRUE)

\* env = ... self.final_env() (before the spawn, or before the attach)
fork_final_env(w, fail) ==
    IF w.raised THEN w
    ELSE IF fail = "final_env" THEN Raise(w)
    ELSE [w EXCEPT !.c = final_env_child(w.c)]

\* get_boss().prewarm(slave, ...) or fast_data_types.spawn(...)
fork_spawn(w, fail) ==
    IF w.raised THEN w
    ELSE IF w.c.is_prewarmed
    THEN IF fail = "attach" THEN Raise(w)
         ELSE LogData([w EXCEPT !.c.has_prewarmed_child = TRUE,
                                !.loc.pid = ChildPid], "attach", w.loc.slave, w.loc.stdin)
    ELSE IF fail = "spawn" THEN Raise(w)
         ELSE Log([w EXCEPT !.loc.pid = ChildPid], "spawn", w.loc.slave, TRUE)

\* fork_record with the child_fd assignment lost
fork_record_pid_only(w) ==
    IF w.raised THEN w
    ELSE LET w1 == os_close(w, w.loc.slave)
         IN  IF w1.raised THEN w1
             ELSE [w1 EXCEPT !.c.pid = w.loc.pid]

\* os.close(slave); self.pid = pid; self.child_fd = master
fork_record(w) ==
    IF w.raised THEN w
    ELSE LET w1 == os_close(w, w.loc.slave)
         IN  IF w1.raised THEN w1
             ELSE [w1 EXCEPT !.c.pid = w.loc.pid, !.c.child_fd = w.loc.master]

\* os.close(stdin_read_fd); fast_data_types.thread_write(stdin_write_fd, stdin)
fork_stdin_handoff(w, fail) ==
    IF w.raised \/ w.c.is_prewarmed \/ w.loc.stdin = "None" THEN w
    ELSE LET w1 == os_close(w, w.loc.stdin_read_fd)
         IN  IF w1.raised THEN w1
             ELSE IF fail = "thread_write" THEN Raise(w1)
             ELSE LogData([w1 EXCEPT !.wr = @ \cup {w.loc.stdin_write_fd}],
                          "thread_write", w.loc.stdin_write_fd, w.loc.stdin)

\* os.close(ready_read_fd); self.terminal_ready_fd = ready_write_fd
fork_ready_keep(w) ==
    IF w.raised \/ w.c.is_prewarmed THEN w
    ELSE LET w1 == os_close(w, w.loc.ready_read_fd)
         IN  IF w1.raised THEN w1
             ELSE [w1 EXCEPT !.c.has_terminal_ready_fd = TRUE,
                             !.c.terminal_ready_fd = w.loc.ready_write_fd]

\* the end of fork with the master left in blocking mode
fork_nonblocking_skipped(w) ==
    IF w.raised THEN w ELSE [w EXCEPT !.ret = w.loc.pid]

\* if self.child_fd is not None: os.set_blocking(self.child_fd, False); return pid
fork_nonblocking(w) ==
    IF w.raised THEN w
    ELSE LET w1 == IF w.c.child_fd # None
                   THEN Log(w, "set_nonblocking", w.c.child_fd, TRUE)
                   ELSE w
         IN  [w1 EXCEPT !.ret = w.loc.pid]

\* the body of fork after the forked guard
fork_body(w, fail) ==
    fork_nonblocking(
     fork_ready_keep(
      fork_stdin_handoff(
       fork_record(
        fork_spawn(
         fork_final_env(
          fork_stdin_pipe(
           fork_ready_pipe(
            fork_classify(
             fork_openpty(w, fail)), fail), fail), fail), fail)), fail)))

\* fork without its forked guard
fork_unguarded(w, fail) == fork_body(w, fail)

\* if self.forked: return None
fork(w, fail) ==
    IF w.c.forked THEN [w EXCEPT !.ret = None] ELSE fork_body(w, fail)


\* Child.mark_terminal_ready: an attribute that was never assigned raises
\* AttributeError; the prewarm branch tells the boss, the other closes the fd
mark_terminal_ready(w) ==
    IF w.c.is_prewarmed
    THEN IF ~w.c.has_prewarmed_child THEN Raise(w)
         ELSE Log(w, "mark_child_as_ready", NoFd, TRUE)
    ELSE IF ~w.c.has_terminal_ready_fd THEN Raise(w)
    ELSE LET w1 == os_close(w, w.c.terminal_ready_fd)
         IN  IF w1.raised THEN w1
             ELSE [w1 EXCEPT !.c.terminal_ready_fd = NoFd]

\* Child.__del__: fd = getattr(self, 'terminal_ready_fd', -1); close it if > -1
del_child(w) ==
    LET fd == IF w.c.has_terminal_ready_fd THEN w.c.terminal_ready_fd ELSE NoFd
        w1 == IF fd > NoFd THEN os_close(w, fd) ELSE w
    IN  IF w1.raised THEN [w1 EXCEPT !.c.alive = FALSE]
        ELSE [w1 EXCEPT !.c.has_terminal_ready_fd = TRUE,
                        !.c.terminal_ready_fd = NoFd,
                        !.c.alive = FALSE]

(***************************************************************************)
(* The process table and the process-group cache.                          *)
(***************************************************************************)
\* the pids and process groups of the model; NoGroup marks a pid not running
Pids == {ChildPid, ChildPid + 1}

Groups == {ChildPid, ChildPid + 1}

NoGroup == 0

\* defaultdict(list) with nothing in it
EmptyMap == [g \in Groups |-> {}]

\* process_group_map(): the pids of each group; a pid that is gone is skipped.
\* The order of a group's list is the order of the directory scan, which the
\* callers do not depend on (they take min, max or every element): a set.
process_group_map(table) == [g \in Groups |-> {p \in Pids : table[p] = g}]

\* what a call of process_group_map() yields when the scan itself may raise
scan(table, scan_fails) ==
    [raised |-> scan_fails, val |-> IF scan_fails THEN EmptyMap ELSE process_group_map(table)]

\* the function attribute cached_map: absent, or a map
NoCache == [has |-> FALSE, map |-> EmptyMap]

NoOp == [op |-> "none", raised |-> FALSE, grp |-> NoGroup, scanned |-> FALSE,
         scan_fails |-> FALSE, body_raises |-> FALSE, val |-> {},
         table |-> [p \in Pids |-> NoGroup]]

\* gmap.get(grp, [])
map_get(gmap, grp) == IF grp \in DOMAIN gmap THEN gmap[grp] ELSE {}

\* processes_in_group(grp): [val, scanned]; scans only when no map is cached
processes_in_group(c, table, scan_fails, grp) ==
    IF c.has
    THEN [val |-> map_get(c.map, grp), scanned |-> FALSE]
    ELSE [val |-> map_get(scan(table, scan_fails).val, grp), scanned |-> TRUE]

\* cached_process_data, up to the yield: scan (an empty map if it raises), publish
enter_scope(table, scan_fails) == [has |-> TRUE, map |-> scan(table, scan_fails).val]

\* cached_process_data without its try/finally: a raising body skips the delattr
exit_scope_no_finally(c, body_raises) ==
    IF body_raises THEN [cache |-> c, raised |-> TRUE]
    ELSE IF c.has THEN [cache |-> NoCache, raised |-> FALSE]
    ELSE [cache |-> c, raised |-> TRUE]

\* cached_process_data, the finally: delattr raises AttributeError when the
\* attribute is absent; otherwise the body's exception, if any, propagates
exit_scope(c, body_raises) ==
    IF c.has THEN [cache |-> NoCache, raised |-> body_raises]
    ELSE [cache |-> c, raised |-> TRUE]

EnterScope(scan_fails) ==
    /\ Len(scopes) < MaxDepth
    /\ cache' = enter_scope(procs, scan_fails)
    /\ scopes' = Append(scopes, scan(procs, scan_fails).val)
    /\ plog' = [NoOp EXCEPT !.op = "enter", !.scan_fails = scan_fails]
    /\ UNCHANGED procs
    /\ UNCHANGED <<childVars, ioVars>>

ExitScope(body_raises) ==
    /\ Len(scopes) > 0
    /\ LET r == exit_scope(cache, body_raises)
       IN  /\ cache' = r.cache
           /\ plog' = [NoOp EXCEPT !.op = "exit", !.raised = r.raised,
                                   !.body_raises = body_raises]
    /\ scopes' = SubSeq(scopes, 1, Len(scopes) - 1)
    /\ UNCHANGED procs
    /\ UNCHANGED <<childVars, ioVars>>

Lookup(grp, scan_fails) ==
    /\ LET r == processes_in_group(cache, procs, scan_fails, grp)
       IN  plog' = [NoOp EXCEPT !.op = "lookup", !.grp = grp, !.scanned = r.scanned,
                                !.scan_fails = scan_fails, !.val = r.val,
                                !.table = procs]
    /\ UNCHANGED <<procs, cache, scopes>>
    /\ UNCHANGED <<childVars, ioVars>>

\* a process starts, exits or changes its group
ProcessChange(p, g) ==
    /\ procs[p] # g
    /\ procs' = [procs EXCEPT ![p] = g]
    /\ UNCHANGED <<cache, scopes, plog>>
    /\ UNCHANGED <<childVars, ioVars>>

InitCache ==
    /\ child = NewChild(<<bash>>, "None")
    /\ fds = {}
    /\ events = <<>>
    /\ hist = <<>>
    /\ writer = {}
    /\ calls = 0
    /\ procs \in [Pids -> Groups \cup {NoGroup}]
    /\ cache = NoCache
    /\ scopes = <<>>
    /\ plog = NoOp
    /\ platform = "linux"
    /\ input = <<>>
    /\ res = NoRes

NextCache ==
    \/ \E f \in BOOLEAN : EnterScope(f)
    \/ \E b \in BOOLEAN : ExitScope(b)
    \/ \E g \in Groups, f \in BOOLEAN : Lookup(g, f)
    \/ \E p \in Pids, g \in Groups \cup {NoGroup} : ProcessChange(p, g)

SpecCache == InitCache /\ [][NextCache]_vars


(***************************************************************************)
(* parse_environ_block.  Positions are Python's: 0-based, -1 for absent.   *)
(* A dict is the sequence of its <<key, value>> pairs in insertion order.  *)
(***************************************************************************)
\* the NUL character
NUL == "NUL"

Min(S) == CHOOSE x \in S : \A y \in S : x <= y

Max(S) == CHOOSE x \in S : \A y \in S : x >= y

\* data.find(ch, start, stop)
Find(data, ch, start, stop) ==
    LET hits == {i \in start..(stop - 1) : i >= 0 /\ i < Len(data) /\ data[i + 1] = ch}
    IN  IF hits = {} THEN -1 ELSE Min(hits)

\* data[a:b] for 0 <= a, b <= len(data)
Slice(data, a, b) == SubSeq(data, a + 1, b)

\* an assignment that leaves the value of a key already present alone
DictSetKeepFirst(d, k, v) ==
    IF \E i \in 1..Len(d) : d[i][1] = k THEN d ELSE Append(d, <<k, v>>)

\* ret[key] = value: a key already present keeps its place
DictSet(d, k, v) ==
    IF \E i \in 1..Len(d) : d[i][1] = k
    THEN [i \in 1..Len(d) |-> IF d[i][1] = k THEN <<k, v>> ELSE d[i]]
    ELSE Append(d, <<k, v>>)

\* the value of a record with the "=" kept: data[equal_pos:next_pos]
ValueOfKeepingEqual(data, equal_pos, next_pos) == Slice(data, equal_pos, next_pos)

\* value = data[equal_pos + 1:next_pos]
ValueOf(data, equal_pos, next_pos) == Slice(data, equal_pos + 1, next_pos)

\* the while loop of parse_environ_block, from scan position pos
RECURSIVE parse_loop(_, _, _)
parse_loop(data, pos, ret) ==
    LET next_pos == Find(data, NUL, pos, Len(data))
    IN  IF next_pos <= pos THEN ret
        ELSE LET equal_pos == Find(data, "=", pos, next_pos)
                 ret1 == IF equal_pos > pos
                         THEN DictSet(ret, Slice(data, pos, equal_pos),
                                      ValueOf(data, equal_pos, next_pos))
                         ELSE ret
             IN  parse_loop(data, next_pos + 1, ret1)

parse_environ_block(data) == parse_loop(data, 0, <<>>)

\* ''.join(f"{k}={v}\0" for k, v in map.items())
RECURSIVE Serialize(_)
Serialize(d) ==
    IF d = <<>> THEN <<>>
    ELSE d[1][1] \o <<"=">> \o d[1][2] \o <<NUL>> \o Serialize(Tail(d))

\* dict equality: the same keys with the same values, in any order
DictItems(d) == {d[i] : i \in 1..Len(d)}

EnvChars == {"A", "B", "=", NUL}

Blobs == UNION {[1..n -> EnvChars] : n \in 0..MaxBlobLen}

\* parse_environ_block(input)
ParseEnviron ==
    /\ res.op = "none"
    /\ res' = [op |-> "parse", raised |-> FALSE, val |-> parse_environ_block(input)]
    /\ UNCHANGED <<platform, input>>
    /\ UNCHANGED <<childVars, cacheVars>>

\* parse_environ_block of the re-serialised result of the first parse
ReparseEnviron ==
    /\ res.op = "parse"
    /\ res' = [op |-> "reparse", raised |-> FALSE, first |-> res.val,
               val |-> parse_environ_block(Serialize(res.val))]
    /\ UNCHANGED <<platform, input>>
    /\ UNCHANGED <<childVars, cacheVars>>

InitEnviron ==
    /\ child = NewChild(<<bash>>, "None")
    /\ fds = {}
    /\ events = <<>>
    /\ hist = <<>>
    /\ writer = {}
    /\ calls = 0
    /\ procs = [p \in Pids |-> NoGroup]
    /\ cache = NoCache
    /\ scopes = <<>>
    /\ plog = NoOp
    /\ platform = "linux"
    /\ input \in Blobs
    /\ res = NoRes

NextEnviron == ParseEnviron \/ ReparseEnviron

SpecEnviron == InitEnviron /\ [][NextEnviron]_vars


(***************************************************************************)
(* The introspection backend and the Child's accessors.  What the OS       *)
(* answers to the queries of one call is the oracle o of that call:        *)
(*   pgrp_raises, pgrp   os.tcgetpgrp(child_fd) raises, or its value       *)
(*   scan_fails          the scan of the process table raises              *)
(*   cmdline[pid]        "raise", "empty", "real" or "prewarmer"           *)
(*   cwd[pid]            "ok", "gone" (no such process) or "denied"        *)
(*   env[pid]            "raise", "blank_tty" or "real_tty"                *)
(* The process table itself is the variable procs.                         *)
(***************************************************************************)
\* Optional[str] None
NonePath == "<None>"

sh == <<"s", "h">>
vim == <<"v", "i", "m">>
prewarm_worker == <<"p", "w">>

\* KITTY_PREWARM_SOCKET_REAL_TTY and its two kinds of value: blanks, a device path
REAL_TTY == <<"T", "T", "Y">>
blank_value == <<" ", " ">>
tty_path == <<"/", "t">>

\* cmdline_of_prewarmer(): the worker's command line, captured once
cmdline_of_prewarmer == <<prewarm_worker>>

\* the module-level cmdline_of_pid(pid): raises when the process is gone
cmdline_of_pid(o, pid) ==
    IF pid \notin Pids \/ o.cmdline[pid] = "raise" THEN [raised |-> TRUE, val |-> <<>>]
    ELSE [raised |-> FALSE,
          val |-> CASE o.cmdline[pid] = "empty" -> <<>>
                    [] o.cmdline[pid] = "prewarmer" -> cmdline_of_prewarmer
                    [] OTHER -> IF pid = ChildPid THEN <<sh>> ELSE <<vim>>]

\* the path a live process's cwd link resolves to, and the unresolved link
RealCwd(pid) == IF pid = ChildPid THEN "/home" ELSE "/tmp"

ProcCwdLink(pid) == IF pid = ChildPid THEN "/proc/100/cwd" ELSE "/proc/101/cwd"

\* cwd_of_process on macOS and FreeBSD: the native call, or pwdx, fails for a
\* process that is gone or unreadable, and the failure is raised
cwd_of_process_raising(pf, o, pid) ==
    IF pid \notin Pids \/ o.cwd[pid] # "ok" THEN [raised |-> TRUE, val |-> NonePath]
    ELSE [raised |-> FALSE, val |-> RealCwd(pid)]

\* cwd_of_process(pid).  On Linux it is os.path.realpath('/proc/<pid>/cwd'):
\* realpath returns a path that does not exist unchanged, so a process that
\* is gone yields the link's own path; a link that may not be read raises
cwd_of_process(pf, o, pid) ==
    IF pf # "linux" THEN cwd_of_process_raising(pf, o, pid)
    ELSE IF pid \notin Pids THEN [raised |-> FALSE, val |-> "/proc/None/cwd"]
    ELSE IF o.cwd[pid] = "denied" THEN [raised |-> TRUE, val |-> NonePath]
    ELSE IF o.cwd[pid] = "gone" THEN [raised |-> FALSE, val |-> ProcCwdLink(pid)]
    ELSE [raised |-> FALSE, val |-> RealCwd(pid)]

\* _environ_of_process(pid): the raw block
EnvBlock(kind) ==
    <<"A", "=", "B", NUL>> \o REAL_TTY \o <<"=">> \o
    (IF kind = "real_tty" THEN tty_path ELSE blank_value) \o <<NUL>>

\* environ_of_process(pid) = parse_environ_block(_environ_of_process(pid))
environ_of_process(o, pid) ==
    IF pid \notin Pids \/ o.env[pid] = "raise" THEN [raised |-> TRUE, val |-> <<>>]
    ELSE [raised |-> FALSE, val |-> parse_environ_block(EnvBlock(o.env[pid]))]

\* os.tcgetpgrp(self.child_fd)
tcgetpgrp(o) == [raised |-> o.pgrp_raises, val |-> o.pgrp]

\* a value returned, and an exception raised
Ok(v) == [raised |-> FALSE, val |-> v]

Raised == [raised |-> TRUE, val |-> NonePath]

\* try: ... except Exception: fallback (also: with suppress(Exception), then fallback)
Except(r, fallback) == IF r.raised THEN Ok(fallback) ELSE r

\* Child.cmdline_of_pid: never raises
Child_cmdline_of_pid(o, pid) ==
    LET ans == Except(cmdline_of_pid(o, pid), <<>>).val
    IN  IF pid = child.pid
           /\ (ans = <<>> \/ (child.is_prewarmed /\ ans = cmdline_of_prewarmer))
        THEN child.argv
        ELSE ans

\* assert self.child_fd is not None; pgrp = os.tcgetpgrp(self.child_fd);
\* foreground_processes = processes_in_group(pgrp) if pgrp >= 0 else []
ForegroundPids(o) ==
    IF child.child_fd = None \/ tcgetpgrp(o).raised THEN Raised
    ELSE Ok(IF tcgetpgrp(o).val >= 0
            THEN processes_in_group(cache, procs, o.scan_fails, tcgetpgrp(o).val).val
            ELSE {})

\* get_pid_for_cwd that takes the highest pid whatever oldest says
get_pid_for_cwd_newest(o, oldest) ==
    LET fp == ForegroundPids(o)
    IN  IF ~fp.raised /\ fp.val # {} THEN Ok(Max(fp.val)) ELSE Ok(child.pid)

\* Child.get_pid_for_cwd(oldest): the body under suppress, then return self.pid
get_pid_for_cwd(o, oldest) ==
    LET fp == ForegroundPids(o)
    IN  IF ~fp.raised /\ fp.val # {}
        THEN Ok(IF oldest THEN Min(fp.val) ELSE Max(fp.val))
        ELSE Ok(child.pid)

\* process_desc(pid) of Child.foreground_processes
process_desc(o, pid) ==
    [pid |-> pid,
     cmdline |-> Child_cmdline_of_pid(o, pid),
     cwd |-> Except(cwd_of_process(platform, o, pid), NonePath).val]

\* Child.foreground_processes, without the child_fd guard and the try/except
foreground_processes_unguarded(o) ==
    LET fp == ForegroundPids(o)
    IN  IF fp.raised THEN Raised ELSE Ok({process_desc(o, x) : x \in fp.val})

\* Child.foreground_processes
foreground_processes(o) ==
    IF child.child_fd = None THEN Ok({})
    ELSE Except(foreground_processes_unguarded(o), {})

\* Child.cmdline, the body of the try
cmdline_body(o) ==
    IF child.pid = None THEN Raised
    ELSE Ok(IF Child_cmdline_of_pid(o, child.pid) = <<>> THEN child.argv
            ELSE Child_cmdline_of_pid(o, child.pid))

\* Child.cmdline
cmdline(o) == Except(cmdline_body(o), child.argv)

\* Child.foreground_cmdline (pid_for_cwd is read twice; one oracle answers both)
foreground_cmdline(o) ==
    LET pid == get_pid_for_cwd(o, FALSE).val
        body == IF pid = None THEN Raised
                ELSE IF Child_cmdline_of_pid(o, pid) = <<>> THEN cmdline(o)
                ELSE Ok(Child_cmdline_of_pid(o, pid))
    IN  IF body.raised THEN cmdline(o) ELSE body

\* Child.environ
environ(o) ==
    Except(IF child.pid = None THEN Raised ELSE environ_of_process(o, child.pid), <<>>)

\* Child.current_cwd without the suppress
current_cwd_unguarded(o) ==
    IF child.pid = None THEN Raised ELSE cwd_of_process(platform, o, child.pid)

\* Child.current_cwd
current_cwd(o) == Except(current_cwd_unguarded(o), NonePath)

\* Child.get_foreground_cwd(oldest); foreground_cwd is get_foreground_cwd()
get_foreground_cwd(o, oldest) ==
    LET pid == get_pid_for_cwd(o, oldest).val
    IN  IF pid = None THEN Ok(NonePath)
        ELSE Except(cwd_of_process(platform, o, pid), NonePath)

\* Child.foreground_environ
foreground_environ(o) ==
    LET pid == get_pid_for_cwd(o, FALSE).val
    IN  IF pid # None /\ ~environ_of_process(o, pid).raised
        THEN environ_of_process(o, pid)
        ELSE IF child.pid # None /\ ~environ_of_process(o, child.pid).raised
        THEN environ_of_process(o, child.pid)
        ELSE Ok(<<>>)

(***************************************************************************)
(* send_signal_for_key.  The terminal's answers to one call are t:         *)
(*   isig_pty, isig_real  the ISIG bit of the PTY and of the real tty      *)
(*   cc                   the VINTR, VSUSP and VQUIT control characters    *)
(*   fail                 the OS call of this method that raises, if any   *)
(***************************************************************************)
\* dict.get(key): the empty string stands for None (both are falsy)
dict_get(d, k) ==
    IF \E i \in 1..Len(d) : d[i][1] = k
    THEN d[CHOOSE i \in 1..Len(d) : d[i][1] = k][2]
    ELSE <<>>

\* the if/elif chain on cc[VINTR], cc[VSUSP], cc[VQUIT]
signal_for_key(key_num, cc) ==
    IF key_num = cc.VINTR THEN "SIGINT"
    ELSE IF key_num = cc.VSUSP THEN "SIGTSTP"
    ELSE IF key_num = cc.VQUIT THEN "SIGQUIT"
    ELSE "none"

NoSignal(raised, val, tty) == [raised |-> raised, val |-> val, sent |-> <<>>, tty |-> tty]

\* Child.send_signal_for_key(key_num): [raised, val, sent, tty]
send_signal_for_key(key_num, o, t) ==
    IF child.child_fd = None THEN NoSignal(FALSE, FALSE, "none")
    ELSE LET tty_name == dict_get(foreground_environ(o).val, REAL_TTY)
             tty == IF tty_name # <<>> /\ tty_name[1] = "/" THEN "real" ELSE "pty"
             isig == IF tty = "real" THEN t.isig_real ELSE t.isig_pty
             s == signal_for_key(key_num, t.cc)
         IN  IF tty = "real" /\ t.fail = "open" THEN NoSignal(TRUE, FALSE, tty)
             ELSE IF t.fail = "tcgetattr" THEN NoSignal(TRUE, FALSE, tty)
             ELSE IF ~isig THEN NoSignal(FALSE, FALSE, tty)
             ELSE IF s = "none" THEN NoSignal(FALSE, FALSE, tty)
             ELSE IF t.fail \in {"tcgetpgrp", "killpg"} THEN NoSignal(TRUE, FALSE, tty)
             ELSE [raised |-> FALSE, val |-> TRUE,
                   sent |-> <<[pgrp |-> o.pgrp, sig |-> s]>>, tty |-> tty]

(***************************************************************************)
(* The operations on one Child.                                            *)
(***************************************************************************)
\* the state a method leaves, and what it returned, become the new state
Commit(w, op) ==
    /\ child' = w.c
    /\ fds' = w.fds
    /\ events' = w.ev
    /\ writer' = w.wr
    /\ hist' = Append(hist, [op |-> op, raised |-> w.raised, ret |-> w.ret])
    /\ UNCHANGED <<cacheVars, ioVars>>

Launch(fail) ==
    /\ child.alive
    /\ calls < MaxCalls
    /\ calls' = calls + 1
    /\ Commit(fork(Working, fail), "launch")

MarkTerminalReady ==
    /\ child.alive
    /\ calls < MaxCalls
    /\ calls' = calls + 1
    /\ Commit(mark_terminal_ready(Working), "mark_terminal_ready")

Destroy ==
    /\ child.alive
    /\ calls' = calls
    /\ Commit(del_child(Working), "del")

\* the stdin writer has flushed the payload and closes its descriptor
ThreadWriteDone ==
    /\ \E fd \in writer :
          LET w == os_close([Working EXCEPT !.wr = @ \ {fd}], fd)
          IN  /\ fds' = w.fds
              /\ events' = w.ev
              /\ writer' = w.wr
    /\ UNCHANGED <<child, hist, calls>>
    /\ UNCHANGED <<cacheVars, ioVars>>

InitChild ==
    /\ \E argv \in ArgvInputs, stdin \in StdinInputs : child = NewChild(argv, stdin)
    /\ fds = {}
    /\ events = <<>>
    /\ hist = <<>>
    /\ writer = {}
    /\ calls = 0

InitChildOnly ==
    /\ InitChild
    /\ procs = [p \in Pids |-> NoGroup]
    /\ cache = NoCache
    /\ scopes = <<>>
    /\ plog = NoOp
    /\ platform = "linux"
    /\ input = [argv |-> child.argv, stdin |-> child.stdin]
    /\ res = NoRes

NextChild ==
    \/ \E fail \in FailPoints : Launch(fail)
    \/ MarkTerminalReady
    \/ Destroy
    \/ ThreadWriteDone

SpecChild == InitChildOnly /\ [][NextChild]_vars


(***************************************************************************)
(* The answers the OS can give to one call.                                *)
(***************************************************************************)
OtherPid == ChildPid + 1

DefaultOracle ==
    [ pgrp_raises |-> FALSE, pgrp |-> ChildPid, scan_fails |-> FALSE,
      cmdline |-> [p \in Pids |-> "real"],
      cwd |-> [p \in Pids |-> "ok"],
      env |-> [p \in Pids |-> "blank_tty"] ]

ForegroundAnswers ==
    {[DefaultOracle EXCEPT !.pgrp_raises = a, !.pgrp = b, !.scan_fails = c] :
        a \in BOOLEAN, b \in {-1, ChildPid}, c \in BOOLEAN}

CmdlineAnswers ==
    {f \in [Pids -> {"raise", "empty", "real", "prewarmer"}] :
        f[OtherPid] \in {"raise", "real"}}

CwdAnswers == [Pids -> {"ok", "gone", "denied"}]

EnvAnswers == [Pids -> {"raise", "blank_tty", "real_tty"}]

TerminalAnswers ==
    [ isig_pty : BOOLEAN, isig_real : BOOLEAN,
      cc : {[VINTR |-> 3, VSUSP |-> 26, VQUIT |-> 28], [VINTR |-> 3, VSUSP |-> 3, VQUIT |-> 28]},
      fail : {"none", "open", "tcgetattr", "tcgetpgrp", "killpg"} ]

KeyCodes == {3, 26, 28, 65}

\* the outcome of a call, with the answers it got
Outcome(op, o, r) == [op |-> op, o |-> o, raised |-> r.raised, val |-> r.val]

GetCmdline ==
    /\ res.op = "none"
    /\ \E f \in CmdlineAnswers :
          LET o == [DefaultOracle EXCEPT !.cmdline = f]
          IN  res' = Outcome("cmdline", o, cmdline(o))
    /\ UNCHANGED <<platform, input>>
    /\ UNCHANGED <<childVars, cacheVars>>

GetForegroundCmdline ==
    /\ res.op = "none"
    /\ \E fg \in ForegroundAnswers, f \in CmdlineAnswers :
          LET o == [fg EXCEPT !.cmdline = f]
          IN  res' = Outcome("foreground_cmdline", o, foreground_cmdline(o))
    /\ UNCHANGED <<platform, input>>
    /\ UNCHANGED <<childVars, cacheVars>>

GetEnviron ==
    /\ res.op = "none"
    /\ \E f \in EnvAnswers :
          LET o == [DefaultOracle EXCEPT !.env = f]
          IN  res' = Outcome("environ", o, environ(o))
    /\ UNCHANGED <<platform, input>>
    /\ UNCHANGED <<childVars, cacheVars>>

GetCurrentCwd ==
    /\ res.op = "none"
    /\ \E f \in CwdAnswers :
          LET o == [DefaultOracle EXCEPT !.cwd = f]
          IN  res' = Outcome("current_cwd", o, current_cwd(o))
    /\ UNCHANGED <<platform, input>>
    /\ UNCHANGED <<childVars, cacheVars>>

GetForegroundCwd ==
    /\ res.op = "none"
    /\ \E fg \in ForegroundAnswers, f \in CwdAnswers :
          LET o == [fg EXCEPT !.cwd = f]
          IN  res' = Outcome("foreground_cwd", o, get_foreground_cwd(o, FALSE))
    /\ UNCHANGED <<platform, input>>
    /\ UNCHANGED <<childVars, cacheVars>>

GetForegroundEnviron ==
    /\ res.op = "none"
    /\ \E fg \in ForegroundAnswers, f \in EnvAnswers :
          LET o == [fg EXCEPT !.env = f]
          IN  res' = Outcome("foreground_environ", o, foreground_environ(o))
    /\ UNCHANGED <<platform, input>>
    /\ UNCHANGED <<childVars, cacheVars>>

GetForegroundProcesses ==
    /\ res.op = "none"
    /\ \E fg \in ForegroundAnswers, f \in CmdlineAnswers, g \in {"ok", "gone", "denied"} :
          LET o == [fg EXCEPT !.cmdline = f, !.cwd = [p \in Pids |-> g]]
          IN  res' = Outcome("foreground_processes", o, foreground_processes(o))
    /\ UNCHANGED <<platform, input>>
    /\ UNCHANGED <<childVars, cacheVars>>

GetPidForCwd(oldest) ==
    /\ res.op = "none"
    /\ \E o \in ForegroundAnswers :
          LET r == get_pid_for_cwd(o, oldest)
          IN  res' = [op |-> "get_pid_for_cwd", o |-> o, oldest |-> oldest,
                      raised |-> r.raised, val |-> r.val]
    /\ UNCHANGED <<platform, input>>
    /\ UNCHANGED <<childVars, cacheVars>>

SendSignalForKey(key_num) ==
    /\ res.op = "none"
    /\ \E k \in {"raise", "blank_tty", "real_tty"}, t \in TerminalAnswers :
          LET o == [DefaultOracle EXCEPT !.env = [p \in Pids |-> k]]
              r == send_signal_for_key(key_num, o, t)
          IN  res' = [op |-> "send_signal_for_key", o |-> o, t |-> t, key |-> key_num,
                      raised |-> r.raised, val |-> r.val, sent |-> r.sent, tty |-> r.tty]
    /\ UNCHANGED <<platform, input>>
    /\ UNCHANGED <<childVars, cacheVars>>

\* a Child about to be launched, on one of the three OS families, with some
\* processes in the group ChildPid
InitIntro ==
    /\ \E argv \in ArgvInputs : child = NewChild(argv, "None")
    /\ fds = {}
    /\ events = <<>>
    /\ hist = <<>>
    /\ writer = {}
    /\ calls = 0
    /\ procs \in [Pids -> {NoGroup, ChildPid}]
    /\ cache = NoCache
    /\ scopes = <<>>
    /\ plog = NoOp
    /\ platform \in {"linux", "macos", "freebsd"}
    /\ input = <<>>
    /\ res = NoRes

\* the caller is done with the result of its last call
DropResult ==
    /\ res.op # "none"
    /\ res' = NoRes
    /\ UNCHANGED <<platform, input>>
    /\ UNCHANGED <<childVars, cacheVars>>

\* the first launch; later launches change nothing the accessors read
FirstLaunch(fail) == calls = 0 /\ res.op = "none" /\ Launch(fail)

NextIntro ==
    \/ \E fail \in FailPoints : FirstLaunch(fail)
    \/ GetCmdline
    \/ GetForegroundCmdline
    \/ GetEnviron
    \/ GetCurrentCwd
    \/ GetForegroundCwd
    \/ GetForegroundEnviron
    \/ GetForegroundProcesses
    \/ \E oldest \in BOOLEAN : GetPidForCwd(oldest)
    \/ \E key_num \in KeyCodes : SendSignalForKey(key_num)
    \/ DropResult

SpecIntro == InitIntro /\ [][NextIntro]_vars


(***************************************************************************)
(* Child.final_env on its own: a Child whose defaults and overrides define *)
(* one variable (any of EnvKeys), built up to MaxCalls times.              *)
(***************************************************************************)
\* an environment that defines at most the variable key
Only(key, v) == [k \in EnvKeys |-> IF k = key THEN v ELSE Absent]

Settings ==
    [ key : EnvKeys,
      defaults : {Only(k, v) : k \in EnvKeys, v \in {Absent, "1", "UTF-8", DELETE_ENV_VAR}},
      term : {"xterm-kitty"},
      pid : {"4242"},
      socket : {"<socket>"},
      kitty_base_dir : {"/usr/lib/kitty"},
      tdir : {"", "/terminfo"},
      shell_integration : {"disabled", "enabled"},
      lc_ctype_before_python : BOOLEAN,
      lc_ctype_set_by_user : BOOLEAN,
      token : {"", "<token>"} ]

\* what the shell-integration mutator may do to the variable under study
ShellMutations(key) == {[key |-> key, val |-> v] : v \in {"keep", "3", DELETE_ENV_VAR, Absent}}

\* self.final_env()
BuildEnv(m) ==
    /\ calls < MaxCalls
    /\ LET r == final_env(child, platform, input, m)
       IN  /\ res' = [op |-> "final_env", raised |-> FALSE, val |-> r.env, m |-> m,
                      n |-> calls + 1]
           /\ child' = r.c
    /\ calls' = calls + 1
    /\ UNCHANGED <<fds, events, hist, writer>>
    /\ UNCHANGED <<platform, input>>
    /\ UNCHANGED cacheVars

InitFinalEnv ==
    /\ input \in Settings
    /\ input.defaults \in {Only(input.key, v) : v \in {Absent, "1", "UTF-8", DELETE_ENV_VAR}}
    /\ platform \in {"linux", "macos"}
    /\ platform = "linux" => (~input.lc_ctype_before_python /\ ~input.lc_ctype_set_by_user)
    /\ \E v \in {Absent, "2", DELETE_ENV_VAR}, pw \in BOOLEAN :
          child = [NewChild(<<bash>>, "None") EXCEPT !.env = Only(input.key, v),
                                                    !.is_prewarmed = pw,
                                                    !.is_clone_launch = input.token]
    /\ fds = {}
    /\ events = <<>>
    /\ hist = <<>>
    /\ writer = {}
    /\ calls = 0
    /\ procs = [p \in Pids |-> NoGroup]
    /\ cache = NoCache
    /\ scopes = <<>>
    /\ plog = NoOp
    /\ res = NoRes

NextFinalEnv == \E m \in ShellMutations(input.key) : BuildEnv(m)

SpecFinalEnv == InitFinalEnv /\ [][NextFinalEnv]_vars


(***************************************************************************)
(* is_prewarmable on its own: every argv of up to MaxArgc strings.         *)
(***************************************************************************)
MaxArgc == 4

ArgStrings == {kitty, bin_kitty, bash, <<>>, <<"+">>, open, plus_open, at_ls}

Argvs == UNION {[1..n -> ArgStrings] : n \in 0..MaxArgc}

\* is_prewarmable(input)
Classify ==
    /\ res.op = "none"
    /\ LET r == is_prewarmable(input)
       IN  res' = [op |-> "is_prewarmable", raised |-> r.raised, val |-> r.val]
    /\ UNCHANGED <<platform, input>>
    /\ UNCHANGED <<childVars, cacheVars>>

InitPrewarm ==
    /\ child = NewChild(<<bash>>, "None")
    /\ fds = {}
    /\ events = <<>>
    /\ hist = <<>>
    /\ writer = {}
    /\ calls = 0
    /\ procs = [p \in Pids |-> NoGroup]
    /\ cache = NoCache
    /\ scopes = <<>>
    /\ plog = NoOp
    /\ platform = "linux"
    /\ input \in Argvs
    /\ res = NoRes

NextPrewarm == Classify

SpecPrewarm == InitPrewarm /\ [][NextPrewarm]_vars


(***************************************************************************)
(* What the history and the call log say.                                  *)
(***************************************************************************)
Last(q) == q[Len(q)]

Launches(h) == SelectSeq(h, LAMBDA e : e.op = "launch")

\* the spawns and prewarm attaches that happened
Spawns == {i \in 1..Len(events) : events[i].op \in {"spawn", "attach"}}

\* the successful closes of descriptor fd, and the closes that hit no open descriptor
ClosesOf(fd) == {i \in 1..Len(events) : events[i].op = "close" /\ events[i].fd = fd /\ events[i].ok}

BadCloses == {i \in 1..Len(events) : events[i].op = "close" /\ ~events[i].ok}

\* the write end of the readiness pipe this Child created, if it created one
ReadyWriteFds == {events[i].fd2 : i \in {j \in 1..Len(events) : events[j].op = "ready_pipe"}}

MasterFds == {events[i].fd : i \in {j \in 1..Len(events) : events[j].op = "openpty"}}

FirstLaunchSucceeded(h) == Len(Launches(h)) >= 1 /\ ~Launches(h)[1].raised

\* a step that is a call of launch
IsLaunchStep == Len(hist') = Len(hist) + 1 /\ Last(hist').op = "launch"

(***************************************************************************)
(* C1: when the first launch succeeds it returns the child's pid, which is *)
(* then the Child's pid; every later launch returns None, opens, closes    *)
(* and spawns nothing, and leaves pid and child_fd as the first call set   *)
(* them.                                                                   *)
(***************************************************************************)
C1_SecondLaunchIsNoop ==
    [][ IsLaunchStep =>
          /\ (Len(Launches(hist)) = 0 /\ ~Last(hist').raised) =>
                /\ Last(hist').ret = ChildPid
                /\ child'.pid = Last(hist').ret
                /\ child'.child_fd \in fds'
          /\ FirstLaunchSucceeded(hist) =>
                /\ ~Last(hist').raised
                /\ Last(hist').ret = None
                /\ child'.pid = Launches(hist)[1].ret
                /\ child'.pid = child.pid
                /\ child'.child_fd = child.child_fd
                /\ UNCHANGED <<fds, events, writer>> ]_vars

C1_Witness ==
    /\ Len(Launches(hist)) >= 2
    /\ Launches(hist)[1].ret = ChildPid
    /\ Launches(hist)[2].ret = None
    /\ child.pid = ChildPid

(***************************************************************************)
(* C2 as stated: once launch has been called, exactly one fork/exec or     *)
(* prewarm attach has happened, and pid and child_fd are both set or both  *)
(* absent.                                                                 *)
(***************************************************************************)
PidAndFdTogether == (child.pid = None) <=> (child.child_fd = None)

C2_ExactlyOneSpawn ==
    /\ Len(Launches(hist)) >= 1 => Cardinality(Spawns) = 1
    /\ PidAndFdTogether

(***************************************************************************)
(* C2 amended: at most one fork/exec or prewarm attach ever happens for a  *)
(* Child; one has happened exactly when pid is set, which is the case      *)
(* whenever the first launch returned; a launch that raised before its     *)
(* spawn step is never retried (later calls return None and spawn          *)
(* nothing); pid and child_fd are both set or both absent.                 *)
(***************************************************************************)
C2_AtMostOneSpawn ==
    /\ Cardinality(Spawns) <= 1
    /\ (Cardinality(Spawns) = 1) <=> (child.pid # None)
    /\ FirstLaunchSucceeded(hist) => Cardinality(Spawns) = 1
    /\ \A i \in 2..Len(Launches(hist)) :
          ~Launches(hist)[i].raised /\ Launches(hist)[i].ret = None
    /\ PidAndFdTogether

C2_Witness ==
    /\ Len(Launches(hist)) >= 2
    /\ Launches(hist)[1].raised
    /\ Launches(hist)[2].ret = None
    /\ Cardinality(Spawns) = 0
    /\ child.pid = None /\ child.child_fd = None

(***************************************************************************)
(* C3: for a Child that is not prewarmed, no operation issues a close on   *)
(* a descriptor value that is closed or invalidated, and once a            *)
(* successfully launched Child is destroyed its readiness write end has    *)
(* been closed exactly once.                                               *)
(***************************************************************************)
C3_ReadyFdClosedOnce ==
    ~child.is_prewarmed =>
        /\ BadCloses = {}
        /\ (FirstLaunchSucceeded(hist) /\ ~child.alive) =>
              \A fd \in ReadyWriteFds : Cardinality(ClosesOf(fd)) = 1

(***************************************************************************)
(* C4: once a successfully launched Child has been torn down, child_fd     *)
(* and terminal_ready_fd have each been closed exactly once and neither    *)
(* is still open.                                                          *)
(***************************************************************************)
C4_BothClosedAtTeardown ==
    (FirstLaunchSucceeded(hist) /\ ~child.alive) =>
        /\ \A fd \in MasterFds \cup ReadyWriteFds : Cardinality(ClosesOf(fd)) = 1
        /\ (MasterFds \cup ReadyWriteFds) \cap fds = {}

(***************************************************************************)
(* C5: when launch raises, pid and child_fd are absent and every           *)
(* descriptor the launch opened in the supervising process is closed.      *)
(***************************************************************************)
C5_FailedLaunchLeavesNothing ==
    (Len(hist) >= 1 /\ Last(hist).op = "launch" /\ Last(hist).raised) =>
        /\ child.pid = None
        /\ child.child_fd = None
        /\ fds = {}


(***************************************************************************)
(* C7: entering cached_process_data publishes a snapshot without raising   *)
(* (the scan of the process table, or an empty map when the scan fails),   *)
(* and once a scope has been left, normally or by an exception of its      *)
(* body, no snapshot is published.                                         *)
(***************************************************************************)
C7_ScopePublishesAndDiscards ==
    /\ plog.op = "enter" =>
          /\ ~plog.raised
          /\ cache.has
          /\ cache.map = scopes[Len(scopes)]
          /\ plog.scan_fails => cache.map = EmptyMap
    /\ plog.op = "exit" => ~cache.has

C7_Witness ==
    /\ plog.op = "exit"
    /\ plog.body_raises
    /\ scopes = <<>>
    /\ ~cache.has

(***************************************************************************)
(* C8: a lookup made while a scope is active is answered from the snapshot *)
(* that scope took at entry and rescans nothing; a lookup made outside any *)
(* scope scans afresh and yields the empty list when the scan fails.       *)
(***************************************************************************)
C8_LookupsUseSnapshot ==
    plog.op = "lookup" =>
        IF Len(scopes) > 0
        THEN /\ ~plog.scanned
             /\ plog.val = map_get(scopes[Len(scopes)], plog.grp)
        ELSE /\ plog.scanned
             /\ plog.val = IF plog.scan_fails THEN {}
                           ELSE {p \in Pids : plog.table[p] = plog.grp}


(***************************************************************************)
(* C10: parsing a blob, re-serialising each entry as KEY=VALUE NUL and     *)
(* parsing again yields the mapping of the first parse; a record without   *)
(* "=" is in neither.                                                      *)
(***************************************************************************)
C10_ParseRoundTrip ==
    res.op = "reparse" =>
        /\ DictItems(res.val) = DictItems(res.first)
        /\ Len(res.val) = Len(res.first)
        /\ \A e \in DictItems(res.val) : Len(e[1]) > 0 /\ "=" \notin {e[1][i] : i \in 1..Len(e[1])}

C10_Witness ==
    /\ res.op = "reparse"
    /\ input = <<"A", "=", "=", NUL, "B", NUL, "A">>
    /\ res.val = << <<(<<"A">>), (<<"=">>)>> >>


(***************************************************************************)
(* C6: send_signal_for_key returns True and delivers exactly one signal    *)
(* (SIGINT, SIGTSTP or SIGQUIT for the interrupt, suspend or quit          *)
(* character) to the foreground process group exactly when child_fd is     *)
(* set, the terminal's ISIG bit is set and the key code is one of the      *)
(* three control characters; in every other case it returns False and      *)
(* sends nothing.                                                          *)
(***************************************************************************)
C6_SignalIffIsigAndMatch ==
    res.op = "send_signal_for_key" =>
        LET isig == IF res.tty = "real" THEN res.t.isig_real ELSE res.t.isig_pty
            cc == res.t.cc
            expected == IF res.key = cc.VINTR THEN "SIGINT"
                        ELSE IF res.key = cc.VSUSP THEN "SIGTSTP"
                        ELSE "SIGQUIT"
        IN  IF child.child_fd # None /\ isig /\ res.key \in {cc.VINTR, cc.VSUSP, cc.VQUIT}
            THEN /\ ~res.raised
                 /\ res.val = TRUE
                 /\ res.sent = <<[pgrp |-> res.o.pgrp, sig |-> expected]>>
            ELSE /\ ~res.raised
                 /\ res.val = FALSE
                 /\ res.sent = <<>>

(***************************************************************************)
(* C9: no introspection accessor raises, and when the OS queries behind it *)
(* fail (or the Child has no pid or no child_fd) it returns its fallback:  *)
(* argv for cmdline and foreground_cmdline, the empty mapping for environ  *)
(* and foreground_environ, None for current_cwd and foreground_cwd, the    *)
(* empty list for foreground_processes, the Child's pid for                *)
(* get_pid_for_cwd.                                                        *)
(***************************************************************************)
\* the pid whose data a foreground accessor asks for
ResolvedPid(o) ==
    IF child.child_fd # None /\ ~o.pgrp_raises /\ o.pgrp >= 0 /\ ~o.scan_fails
       /\ {p \in Pids : procs[p] = o.pgrp} # {}
    THEN Max({p \in Pids : procs[p] = o.pgrp})
    ELSE child.pid

NoForegroundGroup(o) == child.child_fd = None \/ o.pgrp_raises

CmdlineFails(o, pid) == pid = None \/ o.cmdline[pid] = "raise"

CwdFails(o, pid) == pid = None \/ o.cwd[pid] # "ok"

EnvFails(o, pid) == pid = None \/ o.env[pid] = "raise"

C9_AccessorsNeverRaise ==
    res.op \in {"cmdline", "foreground_cmdline", "environ", "current_cwd", "foreground_cwd",
                "foreground_environ", "foreground_processes", "get_pid_for_cwd"} =>
        /\ ~res.raised
        /\ (res.op = "cmdline" /\ CmdlineFails(res.o, child.pid)) => res.val = child.argv
        /\ (res.op = "foreground_cmdline" /\ CmdlineFails(res.o, ResolvedPid(res.o))
              /\ CmdlineFails(res.o, child.pid)) => res.val = child.argv
        /\ (res.op = "environ" /\ EnvFails(res.o, child.pid)) => res.val = <<>>
        /\ (res.op = "foreground_environ" /\ EnvFails(res.o, ResolvedPid(res.o))
              /\ EnvFails(res.o, child.pid)) => res.val = <<>>
        /\ (res.op = "current_cwd" /\ CwdFails(res.o, child.pid)) => res.val = NonePath
        /\ (res.op = "foreground_cwd" /\ CwdFails(res.o, ResolvedPid(res.o))) => res.val = NonePath
        /\ (res.op = "foreground_processes" /\ NoForegroundGroup(res.o)) => res.val = {}
        /\ (res.op = "get_pid_for_cwd"
              /\ (NoForegroundGroup(res.o) \/ res.o.pgrp < 0
                    \/ {p \in Pids : procs[p] = res.o.pgrp} = {} \/ res.o.scan_fails))
              => res.val = child.pid


(***************************************************************************)
(* C11: parse_environ_block never raises; it takes the NUL-terminated      *)
(* records in order up to the first empty record or the last terminator,   *)
(* splits each record at its first "=", adds nothing for a record without  *)
(* "=", and a later record with the same key replaces the earlier value.   *)
(* The statement is read off the blob, independently of the scan loop.     *)
(***************************************************************************)
\* the positions (1-based) of the terminators of a blob, and the n-th of them
NulPositions(data) == {i \in 1..Len(data) : data[i] = NUL}

NthNul(data, n) ==
    IF n = 0 THEN 0
    ELSE CHOOSE p \in NulPositions(data) :
            Cardinality({q \in NulPositions(data) : q <= p}) = n

\* the n-th terminated record
Record(data, n) == SubSeq(data, NthNul(data, n - 1) + 1, NthNul(data, n) - 1)

\* the records before the first empty one
LiveRecords(data) ==
    {n \in 1..Cardinality(NulPositions(data)) :
        \A m \in 1..n : Record(data, m) # <<>>}

EqPositions(rec) == {i \in 1..Len(rec) : rec[i] = "="}

KeyOf(rec) == SubSeq(rec, 1, Min(EqPositions(rec)) - 1)

ValOf(rec) == SubSeq(rec, Min(EqPositions(rec)) + 1, Len(rec))

\* the mapping a set of records stands for: the last record of a key wins
MappingOf(data, recs) ==
    {<<KeyOf(Record(data, n)), ValOf(Record(data, n))>> : n \in
        {n \in recs : \A m \in recs :
            KeyOf(Record(data, m)) = KeyOf(Record(data, n)) => m <= n}}

\* as stated: every live record that has an "=" is split at it
C11_EveryRecordWithEqualSplit ==
    res.op = "parse" =>
        /\ ~res.raised
        /\ DictItems(res.val) =
             MappingOf(input, {n \in LiveRecords(input) : EqPositions(Record(input, n)) # {}})

\* C11 as the code has it: a record whose first "=" is its first character
\* (an empty key) adds no entry either
C11_RecordsWithKeySplit ==
    res.op = "parse" =>
        /\ ~res.raised
        /\ DictItems(res.val) =
             MappingOf(input, {n \in LiveRecords(input) :
                                 /\ EqPositions(Record(input, n)) # {}
                                 /\ Min(EqPositions(Record(input, n))) > 1})
        /\ Len(res.val) = Cardinality(DictItems(res.val))

\* a parse in which a later record replaced the value of an earlier one
C11_Witness ==
    /\ res.op = "parse"
    /\ \E m, n \in LiveRecords(input) :
          /\ m < n
          /\ EqPositions(Record(input, m)) # {} /\ EqPositions(Record(input, n)) # {}
          /\ Len(KeyOf(Record(input, m))) > 0
          /\ KeyOf(Record(input, m)) = KeyOf(Record(input, n))
          /\ ValOf(Record(input, m)) # ValOf(Record(input, n))


(***************************************************************************)
(* C12: is_prewarmable(argv) is true only if argv has at least 3 elements, *)
(* the last path component of argv[0] is kitty and argv[1] starts with "@" *)
(* or "+"; it is false for the file-opening subcommand in both "+"         *)
(* spellings (argv[1] = "+open"; argv[1] = "+" and argv[2] = "open"), and  *)
(* false for an argv of fewer than 3 elements or of another program.       *)
(***************************************************************************)
\* the program named by argv[0]: what follows its last "/"
ProgramName(a) ==
    LET slashes == {i \in 1..Len(a) : a[i] = "/"}
    IN  IF slashes = {} THEN a ELSE SubSeq(a, Max(slashes) + 1, Len(a))

ReturnsFalse == ~res.raised /\ res.val = FALSE

C12_PrewarmableTruthTable ==
    res.op = "is_prewarmable" =>
        /\ (~res.raised /\ res.val = TRUE) =>
              /\ Len(input) >= 3
              /\ ProgramName(input[1]) = kitty
              /\ Len(input[2]) > 0 /\ input[2][1] \in {"@", "+"}
        /\ (Len(input) >= 3 /\ ProgramName(input[1]) = kitty /\ input[2] = plus_open)
              => ReturnsFalse
        /\ (Len(input) >= 3 /\ ProgramName(input[1]) = kitty /\ input[2] = <<"+">>
              /\ input[3] = open) => ReturnsFalse
        /\ (Len(input) < 3 \/ ProgramName(input[1]) # kitty) => ReturnsFalse
        /\ input = <<kitty, at_ls, open>> => (~res.raised /\ res.val = TRUE)

\* the file-opening subcommand of kitty, by path, was classified
C12_Witness ==
    /\ res.op = "is_prewarmable"
    /\ input = <<bin_kitty, <<"+">>, open, bash>>
    /\ ReturnsFalse


(***************************************************************************)
(* C20: is_prewarmable is total: for every argv that is a sequence of      *)
(* strings, an empty argv[1] included, it returns a boolean and does not   *)
(* raise.                                                                  *)
(***************************************************************************)
C20_IsPrewarmableTotal ==
    res.op = "is_prewarmable" => (~res.raised /\ res.val \in BOOLEAN)


(***************************************************************************)
(* C13: no environment built by final_env holds a variable whose value is  *)
(* the DELETE sentinel, whatever the defaults, the overrides and the       *)
(* shell-integration mutation are; and a variable the defaults define      *)
(* whose override, or whose shell-integration mutation, is the sentinel is *)
(* absent from the result unless a later layer sets it again.              *)
(***************************************************************************)
\* the variables the layers after the overrides always set in this build
SetByFixedLayers ==
    {"TERM", "COLORTERM", "KITTY_PID", "KITTY_INSTALLATION_DIR"}
    \cup (IF child.is_prewarmed THEN {}
          ELSE {"KITTY_PREWARM_SOCKET", "KITTY_PREWARM_SOCKET_REAL_TTY"})
    \cup (IF child.cwd # "" THEN {"PWD"} ELSE {})
    \cup (IF input.tdir # "" THEN {"TERMINFO"} ELSE {})

ShellEnabled == input.shell_integration # "disabled"

\* the variable the clone marker layer sets in this build
SetByCloneLayer == IF input.token # "" THEN {CLONE} ELSE {}

\* the variable the shell-integration mutator gave a value in this build
SetByShell ==
    IF ShellEnabled /\ res.m.val \notin {"keep", Absent, DELETE_ENV_VAR}
    THEN {res.m.key} ELSE {}

C13_NoDeleteSentinelInResult ==
    res.op = "final_env" =>
        \A k \in EnvKeys :
            /\ res.val[k] # DELETE_ENV_VAR
            /\ (input.defaults[k] # Absent /\ child.env[k] = DELETE_ENV_VAR
                  /\ k \notin SetByFixedLayers \cup SetByShell \cup SetByCloneLayer)
                  => res.val[k] = Absent
            /\ (input.defaults[k] # Absent /\ ShellEnabled /\ res.m.key = k
                  /\ res.m.val = DELETE_ENV_VAR /\ k \notin SetByCloneLayer)
                  => res.val[k] = Absent

\* the default FOO=1 with the override FOO=DELETE was built
C13_Witness ==
    /\ res.op = "final_env"
    /\ input.defaults["FOO"] = "1"
    /\ child.env["FOO"] = DELETE_ENV_VAR
    /\ res.m.val = "keep"
    /\ res.val["FOO"] = Absent


(***************************************************************************)
(* C16: with shell integration disabled, later layers win: an override     *)
(* replaces the default of the same variable, and TERM, COLORTERM,         *)
(* KITTY_PID and PWD carry the supervisor's values (the options' term,     *)
(* truecolor, its pid, the Child's cwd) even when the defaults or the      *)
(* overrides define them.                                                  *)
(***************************************************************************)
C16_LaterLayersWin ==
    (res.op = "final_env" /\ ~ShellEnabled) =>
        /\ \A k \in EnvKeys \ (SetByFixedLayers \cup {CLONE}) :
              child.env[k] \notin {Absent, DELETE_ENV_VAR} => res.val[k] = child.env[k]
        /\ res.val["TERM"] = input.term
        /\ res.val["COLORTERM"] = "truecolor"
        /\ res.val["KITTY_PID"] = input.pid
        /\ res.val["PWD"] = child.cwd

\* defaults and overrides both define TERM, and the options' term came out
C16_Witness ==
    /\ res.op = "final_env" /\ ~ShellEnabled
    /\ input.defaults["TERM"] = "1"
    /\ child.env["TERM"] = "2"
    /\ res.val["TERM"] = "xterm-kitty"


(***************************************************************************)
(* C17: over any sequence of builds of a clone-launch Child, the clone     *)
(* token is the value of KITTY_IS_CLONE_LAUNCH in the first environment    *)
(* only, and the Child does not hold it afterwards; for a Child that is    *)
(* not a clone launch the variable is absent from every environment, even  *)
(* when the defaults or the overrides define it.                           *)
(***************************************************************************)
C17_CloneTokenExposedOnce ==
    res.op = "final_env" =>
        IF input.token # ""
        THEN /\ res.n = 1 => res.val[CLONE] = input.token
             /\ res.n > 1 => res.val[CLONE] # input.token
             /\ child.is_clone_launch # input.token
        ELSE res.val[CLONE] = Absent

\* a second build of a clone-launch Child
C17_Witness ==
    /\ res.op = "final_env"
    /\ input.token # ""
    /\ res.n = 2
    /\ res.val[CLONE] = "1"
    /\ child.is_clone_launch = "1"


(***************************************************************************)
(* C14: get_pid_for_cwd returns the largest pid of the terminal's          *)
(* foreground process group, the smallest when oldest is asked for; when   *)
(* the group id is negative, the group has no known member, child_fd is    *)
(* absent or the query fails, it returns the Child's own pid.              *)
(***************************************************************************)
\* the members of the group the terminal reported, as the process table has them
ForegroundGroup == {p \in Pids : procs[p] = res.o.pgrp}

NoKnownForeground ==
    \/ child.child_fd = None
    \/ res.o.pgrp_raises
    \/ res.o.pgrp < 0
    \/ res.o.scan_fails
    \/ ForegroundGroup = {}

C14_NewestOrOldestOrOwnPid ==
    res.op = "get_pid_for_cwd" =>
        /\ ~res.raised
        /\ IF NoKnownForeground THEN res.val = child.pid
           ELSE /\ res.val \in ForegroundGroup
                /\ \A q \in ForegroundGroup :
                      IF res.oldest THEN res.val <= q ELSE res.val >= q

\* the oldest of a foreground group of two was asked for
C14_Witness ==
    /\ res.op = "get_pid_for_cwd"
    /\ res.oldest
    /\ ~NoKnownForeground
    /\ ForegroundGroup = {ChildPid, OtherPid}
    /\ res.val = ChildPid


(***************************************************************************)
(* C15: during launch the master of the PTY stays in blocking mode until   *)
(* the spawn or the prewarm attach has returned; it is set non-blocking    *)
(* only after that, after the supervisor's slave descriptor is closed and  *)
(* pid and child_fd are recorded; so whenever launch returns a pid the     *)
(* master is non-blocking and the slave is closed in the supervisor.       *)
(* openpty yields both ends blocking, so the master is non-blocking from   *)
(* its set_nonblocking call on.                                            *)
(***************************************************************************)
EventsOf(op) == {i \in 1..Len(events) : events[i].op = op}

SlaveFds == {events[i].fd2 : i \in EventsOf("openpty")}

ReturnedPid == \E i \in 1..Len(hist) :
                  hist[i].op = "launch" /\ ~hist[i].raised /\ hist[i].ret # None

C15_NonBlockingOnlyAfterSpawn ==
    /\ \A i \in EventsOf("set_nonblocking") :
          /\ events[i].fd \in MasterFds
          /\ \E j \in 1..(i - 1) : events[j].op \in {"spawn", "attach"}
          /\ \E j \in 1..(i - 1) :
                /\ events[j].op = "close" /\ events[j].ok
                /\ events[j].fd \in SlaveFds
                /\ \E k \in 1..(j - 1) : events[k].op \in {"spawn", "attach"}
          /\ child.pid = ChildPid
          /\ child.child_fd = events[i].fd
    /\ ReturnedPid =>
          /\ \E i \in EventsOf("set_nonblocking") : events[i].fd = child.child_fd
          /\ child.child_fd \in MasterFds
          /\ SlaveFds \cap fds = {}
          /\ \A fd \in SlaveFds : Cardinality(ClosesOf(fd)) = 1

\* a prewarmed launch and a fresh spawn that returned the pid
C15_Witness ==
    /\ ReturnedPid
    /\ EventsOf("set_nonblocking") # {}
    /\ EventsOf("spawn") # {}
    /\ child.stdin = "None" /\ writer # {}


(***************************************************************************)
(* C18: the stdin payload of a Child is consumed exactly once: the first   *)
(* launch takes it out of the Child (Child.stdin is None afterwards) and   *)
(* hands it to exactly one consumer, the asynchronous writer on the stdin  *)
(* pipe for a fresh spawn or the prewarm attach for a prewarmed launch; a  *)
(* stdin pipe is created only when a payload was supplied and the launch   *)
(* is not prewarmed, and its read end is closed in the supervisor after    *)
(* the spawn.  input holds the arguments the Child was constructed with.   *)
(***************************************************************************)
\* the calls that were handed the payload
Consumers ==
    {i \in 1..Len(events) :
        events[i].op \in {"thread_write", "attach"} /\ events[i].data = "payload"}

StdinReadFds == {events[i].fd : i \in EventsOf("stdin_pipe")}

StdinWriteFds == {events[i].fd2 : i \in EventsOf("stdin_pipe")}

\* the payload was handed to the one consumer its kind of launch has
HandedToOne ==
    /\ Cardinality(Consumers) = 1
    /\ \A i \in Consumers :
          IF child.is_prewarmed THEN events[i].op = "attach"
          ELSE events[i].op = "thread_write" /\ events[i].fd \in StdinWriteFds

\* a stdin pipe only for a payload on a fresh spawn; its read end closed
\* once, after the spawn
PipeOnlyForFreshPayload ==
    /\ EventsOf("stdin_pipe") # {} => (input.stdin = "payload" /\ ~child.is_prewarmed)
    /\ Cardinality(EventsOf("stdin_pipe")) <= 1

ReadEndClosedAfterSpawn ==
    \A fd \in StdinReadFds :
        /\ fd \notin fds
        /\ Cardinality(ClosesOf(fd)) = 1
        /\ \A i \in ClosesOf(fd) : \E j \in 1..(i - 1) : events[j].op = "spawn"

\* as stated: after any first launch
C18_StdinConsumedExactlyOnce ==
    Len(Launches(hist)) >= 1 =>
        /\ child.stdin = "None"
        /\ input.stdin = "payload" => HandedToOne
        /\ input.stdin = "None" => Consumers = {}
        /\ PipeOnlyForFreshPayload
        /\ ReadEndClosedAfterSpawn

\* C18 as the code has it: the payload is handed over at most once, and
\* exactly once when the first launch returned the pid; a launch that got
\* past openpty has taken it out of the Child even when it raised later
C18_StdinConsumedAtMostOnce ==
    /\ Cardinality(Consumers) <= 1
    /\ PipeOnlyForFreshPayload
    /\ (Len(Launches(hist)) >= 1 /\ EventsOf("openpty") # {}) => child.stdin = "None"
    /\ input.stdin = "None" => Consumers = {}
    /\ ReturnedPid =>
          /\ input.stdin = "payload" => HandedToOne
          /\ (input.stdin = "payload" /\ ~child.is_prewarmed) => EventsOf("stdin_pipe") # {}
          /\ ReadEndClosedAfterSpawn

\* a fresh spawn with a payload whose writer got it, launched twice
C18_Witness ==
    /\ input.stdin = "payload"
    /\ ReturnedPid
    /\ Len(Launches(hist)) >= 2
    /\ \E i \in Consumers : events[i].op = "thread_write"


(***************************************************************************)
(* C19: cached_process_data scopes may be nested: every exit of a properly *)
(* nested sequence completes without raising (unless its body raised),     *)
(* a lookup made while a scope is active, also after an inner scope has    *)
(* exited, is served from a published snapshot without a rescan, and no    *)
(* snapshot is published once the outermost scope has exited.              *)
(***************************************************************************)
C19_NestedScopes ==
    /\ (plog.op = "exit" /\ ~plog.body_raises) => ~plog.raised
    /\ (plog.op = "lookup" /\ Len(scopes) > 0) => ~plog.scanned
    /\ Len(scopes) = 0 => ~cache.has


====
